---- MODULE Spec2Model ----
(***************************************************************************)
(* String expression kernels of                                            *)
(* rust/datafusion/src/physical_plan/string_expressions.rs:                *)
(* concatenate, lpad (2- and 3-argument), lower, upper, trim, ltrim,       *)
(* rtrim.                                                                  *)
(*                                                                         *)
(* A string is a sequence of Unicode scalar values (code points).  Its     *)
(* Rust length (str::len) is its UTF-8 byte length, computed by str_len.   *)
(* An array is a record [kind, rows]; a row (cell) is [null, s, n] where   *)
(* s is the string value of a string array and n the value of an Int64     *)
(* array.  A call returns Ok(array), Err(message) or panics.               *)
(***************************************************************************)
EXTENDS Integers, Sequences, FiniteSets, TLC

VARIABLES op, width, args, result

vars == <<op, width, args, result>>

(***************************************************************************)
(* Bounds of the explored inputs.                                          *)
(***************************************************************************)
\* largest number of arguments of a call
MaxArgs == 4
\* largest number of rows of an argument array
MaxRows == 2
\* largest total number of cells (arguments x rows) of a concatenate call
MaxCells == 6
\* longest string of a single-row unary call
MaxStrLen == 3
\* largest total number of characters (string + fill) of a single-row lpad call
MaxChars == 3
\* largest target length; lengths are drawn from -MaxNeg .. MaxLen
MaxLen == 4
MaxNeg == 1
\* width of usize in bits (64 on the usual targets of the crate; scaled down
\* to keep the wrapped values small: a negative length still wraps to a count
\* above isize::MAX)
UsizeBits == 16

\* ' ', 'A', 'a', 'É' (U+00C9, two bytes in UTF-8; its lowercase is U+00E9)
Chars == {32, 65, 97, 201}

(***************************************************************************)
(* Arrays and results.                                                     *)
(***************************************************************************)
StringKinds == {"Utf8", "LargeUtf8"}

Kinds == StringKinds \cup {"Int64"}

NullCell == [null |-> TRUE, s |-> <<>>, n |-> 0]

StrCell(s) == [null |-> FALSE, s |-> s, n |-> 0]

IntCell(n) == [null |-> FALSE, s |-> <<>>, n |-> n]

Array(kind, rows) == [kind |-> kind, rows |-> rows]

\* msg is the format string of the error and fmt the value of its {} (0 when it has none)
Ok(kind, rows) == [tag |-> "Ok", kind |-> kind, rows |-> rows, msg |-> "", fmt |-> 0]

Err(msg, fmt) == [tag |-> "Err", kind |-> "", rows |-> <<>>, msg |-> msg, fmt |-> fmt]

Panic(msg) == [tag |-> "Panic", kind |-> "", rows |-> <<>>, msg |-> msg, fmt |-> 0]

NoResult == [tag |-> "None", kind |-> "", rows |-> <<>>, msg |-> "", fmt |-> 0]

\* Option<String> produced by a row closure, or the panic raised inside it
Some(s) == [st |-> "some", s |-> s, msg |-> ""]

None == [st |-> "none", s |-> <<>>, msg |-> ""]

RowPanic(msg) == [st |-> "panic", s |-> <<>>, msg |-> msg]

(***************************************************************************)
(* Strings: UTF-8 byte length, byte-indexed slicing, char helpers.         *)
(***************************************************************************)
\* char::len_utf8
len_utf8(c) == IF c < 128 THEN 1 ELSE IF c < 2048 THEN 2 ELSE IF c < 65536 THEN 3 ELSE 4

RECURSIVE str_len(_)
\* str::len: the number of BYTES of x
str_len(x) == IF x = <<>> THEN 0 ELSE len_utf8(Head(x)) + str_len(Tail(x))

\* str::is_char_boundary(index)
is_char_boundary(x, index) == \E k \in 0..Len(x) : str_len(SubSeq(x, 1, k)) = index

\* x[..length]: the prefix of `length` bytes; panics when `length` falls
\* inside a multi-byte character
slice_to(x, length) ==
    IF is_char_boundary(x, length)
    THEN Some(SubSeq(x, 1, CHOOSE k \in 0..Len(x) : str_len(SubSeq(x, 1, k)) = length))
    ELSE RowPanic("byte index is not a char boundary")

\* `value as usize` on an i64: wraps modulo 2^UsizeBits
as_usize(n) == n % (2 ^ UsizeBits)

\* isize::MAX, the largest capacity in bytes an allocation may ask for
IsizeMax == (2 ^ (UsizeBits - 1)) - 1

\* " ".repeat(n): n spaces; Vec::with_capacity panics beyond isize::MAX bytes
repeat_space(n) ==
    IF n > IsizeMax THEN RowPanic("capacity overflow") ELSE Some([k \in 1..n |-> 32])

\* u8::is_ascii_uppercase / is_ascii_lowercase on a char
is_ascii_uppercase(c) == c \in 65..90

is_ascii_lowercase(c) == c \in 97..122

\* char::is_whitespace (Unicode White_Space)
is_whitespace(c) ==
    c \in (9..13) \cup {32, 133, 160, 5760} \cup (8192..8202) \cup {8232, 8233, 8239, 8287, 12288}

(***************************************************************************)
(* concatenate                                                             *)
(***************************************************************************)
\* downcast_vec!(args, StringArray): an Err unless every argument is a Utf8 array
downcast_vec(a) == \A k \in 1..Len(a) : a[k].kind = "Utf8"

RECURSIVE concat_loop_overwrite(_, _, _, _)
\* the loop with `is_null = arg.is_null(index)` and no `break`: every
\* argument overwrites the flag, so only the last one decides
concat_loop_overwrite(a, index, k, owned_string) ==
    IF k > Len(a)
    THEN IF a[Len(a)].rows[index].null THEN NullCell ELSE StrCell(owned_string)
    ELSE concat_loop_overwrite(a, index, k + 1, owned_string \o a[k].rows[index].s)

RECURSIVE concat_loop(_, _, _, _)
\* the inner `for arg in &args` loop of row `index`, from argument k on
concat_loop(a, index, k, owned_string) ==
    IF k > Len(a) THEN StrCell(owned_string)
    ELSE IF a[k].rows[index].null THEN NullCell
    ELSE concat_loop(a, index, k + 1, owned_string \o a[k].rows[index].s)

concatenate(a) ==
    IF ~downcast_vec(a) THEN Err("failed to downcast", 0)
    ELSE IF a = <<>>
    THEN Err("Concatenate was called with 0 arguments. It requires at least one.", 0)
    ELSE Ok("Utf8", [index \in 1..Len(a[1].rows) |-> concat_loop(a, index, 1, <<>>)])

(***************************************************************************)
(* lpad                                                                    *)
(***************************************************************************)
\* .collect() of the mapped rows: the first panic of a row closure unwinds
\* out of the call; otherwise every row becomes a cell of the new array
collect(T, outs) ==
    IF \E i \in 1..Len(outs) : outs[i].st = "panic"
    THEN Panic(outs[CHOOSE i \in 1..Len(outs) :
                      /\ outs[i].st = "panic"
                      /\ \A j \in 1..(i - 1) : outs[j].st # "panic"].msg)
    ELSE Ok(T, [i \in 1..Len(outs) |->
                  IF outs[i].st = "none" THEN NullCell ELSE StrCell(outs[i].s)])

\* the row closure of the 2-argument branch: x is the string cell, len the
\* length cell of the row
lpad2_row(x, len) ==
    IF len.null THEN None
    ELSE IF x.null THEN None
    ELSE LET length == as_usize(len.n) IN
         IF length = 0 THEN Some(<<>>)
         ELSE IF length < str_len(x.s) THEN slice_to(x.s, length)
         ELSE LET pad == repeat_space(length - str_len(x.s)) IN
              IF pad.st = "panic" THEN pad ELSE Some(pad.s \o x.s)

\* Vec::<char>::with_capacity(n) followed by the push loop over 0..n
fill_vector(fill_chars, n) ==
    IF n * 4 > IsizeMax THEN RowPanic("capacity overflow")
    ELSE Some([l \in 1..n |-> fill_chars[((l - 1) % Len(fill_chars)) + 1]])

\* the 3-argument row closure without the `|| fill_array.is_null(i)` test
lpad3_row_fill_unchecked(x, len, fill) ==
    IF len.null THEN None
    ELSE IF x.null THEN None
    ELSE LET length == as_usize(len.n)
             fill_chars == fill.s
         IN  IF length = 0 THEN Some(<<>>)
             ELSE IF length < str_len(x.s) THEN slice_to(x.s, length)
             ELSE IF fill_chars = <<>> THEN Some(x.s)
             ELSE LET char_vector == fill_vector(fill_chars, length - str_len(x.s)) IN
                  IF char_vector.st = "panic" THEN char_vector
                  ELSE Some(char_vector.s \o x.s)

\* the row closure of the 3-argument branch
lpad3_row(x, len, fill) ==
    IF len.null \/ fill.null THEN None
    ELSE IF x.null THEN None
    ELSE LET length == as_usize(len.n)
             fill_chars == fill.s
         IN  IF length = 0 THEN Some(<<>>)
             ELSE IF length < str_len(x.s) THEN slice_to(x.s, length)
             ELSE IF fill_chars = <<>> THEN Some(x.s)
             ELSE LET char_vector == fill_vector(fill_chars, length - str_len(x.s)) IN
                  IF char_vector.st = "panic" THEN char_vector
                  ELSE Some(char_vector.s \o x.s)

\* match arm `2 =>`
lpad2(T, a) ==
    IF a[1].kind # T THEN Panic("called Option::unwrap() on a None value")
    ELSE IF a[2].kind # "Int64" THEN Err("could not cast length to Int64Array", 0)
    ELSE collect(T, [i \in 1..Len(a[1].rows) |-> lpad2_row(a[1].rows[i], a[2].rows[i])])

\* match arm `3 =>`
lpad3(T, a) ==
    IF a[1].kind # T \/ a[2].kind # "Int64" \/ a[3].kind # T
    THEN Panic("called Option::unwrap() on a None value")
    ELSE collect(T, [i \in 1..Len(a[1].rows) |->
                       lpad3_row(a[1].rows[i], a[2].rows[i], a[3].rows[i])])

\* the match with `_ =>` on the 3-argument arm and the count tested only
\* from below
lpad_three_or_more(T, a) ==
    IF Len(a) = 2 THEN lpad2(T, a)
    ELSE IF Len(a) >= 3 THEN lpad3(T, a)
    ELSE Err("lpad was called with {} arguments. It requires 2 or 3.", Len(a))

lpad(T, a) ==
    IF Len(a) = 2 THEN lpad2(T, a)
    ELSE IF Len(a) = 3 THEN lpad3(T, a)
    ELSE Err("lpad was called with {} arguments. It requires 2 or 3.", Len(a))

(***************************************************************************)
(* lower, upper, trim, ltrim, rtrim                                        *)
(***************************************************************************)
\* str::to_lowercase restricted to Latin-1: the non-ASCII capitals
\* U+00C0..U+00DE (but the sign U+00D7) are lowered too
to_lowercase(x) ==
    [i \in 1..Len(x) |->
        IF x[i] \in 65..90 \/ (x[i] \in 192..222 /\ x[i] # 215) THEN x[i] + 32 ELSE x[i]]

\* str::to_ascii_lowercase
to_ascii_lowercase(x) == [i \in 1..Len(x) |-> IF is_ascii_uppercase(x[i]) THEN x[i] + 32 ELSE x[i]]

\* str::to_ascii_uppercase
to_ascii_uppercase(x) == [i \in 1..Len(x) |-> IF is_ascii_lowercase(x[i]) THEN x[i] - 32 ELSE x[i]]

RECURSIVE trim_start(_)
\* str::trim_start
trim_start(x) ==
    IF x = <<>> THEN x
    ELSE IF is_whitespace(Head(x)) THEN trim_start(Tail(x))
    ELSE x

RECURSIVE trim_end(_)
\* str::trim_end
trim_end(x) ==
    IF x = <<>> THEN x
    ELSE IF is_whitespace(x[Len(x)]) THEN trim_end(SubSeq(x, 1, Len(x) - 1))
    ELSE x

\* str::trim
str_trim(x) == trim_end(trim_start(x))

\* x.$FUNC() for the five instances of the macro
apply_func(FUNC, x) ==
    CASE FUNC = "to_ascii_lowercase" -> to_ascii_lowercase(x)
      [] FUNC = "to_ascii_uppercase" -> to_ascii_uppercase(x)
      [] FUNC = "trim" -> str_trim(x)
      [] FUNC = "trim_start" -> trim_start(x)
      [] FUNC = "trim_end" -> trim_end(x)

string_unary_function(FUNC, T, a) ==
    IF a = <<>> THEN Panic("index out of bounds")
    ELSE IF a[1].kind # T THEN Panic("called Option::unwrap() on a None value")
    ELSE Ok(T, [i \in 1..Len(a[1].rows) |->
                  IF a[1].rows[i].null THEN NullCell
                  ELSE StrCell(apply_func(FUNC, a[1].rows[i].s))])

lower(T, a) == string_unary_function("to_ascii_lowercase", T, a)

upper(T, a) == string_unary_function("to_ascii_uppercase", T, a)

trim(T, a) == string_unary_function("trim", T, a)

ltrim(T, a) == string_unary_function("trim_start", T, a)

rtrim(T, a) == string_unary_function("trim_end", T, a)

(***************************************************************************)
(* The argument lists handed to the kernels.  Arrays of one call have the  *)
(* same number of rows (the callers' guarantee; the kernels do not check). *)
(***************************************************************************)
\* the strings of at most n characters
Strs(n) == UNION {[1..k -> Chars] : k \in 0..n}

SeqsUpTo(S, n) == UNION {[1..k -> S] : k \in 0..n}

\* one-row arrays of every kind, for calls of any arity and any kinds
SmallArrays ==
    {Array(k, <<c>>) : k \in StringKinds, c \in {NullCell, StrCell(<<97>>)}}
        \cup {Array("Int64", <<c>>) : c \in {NullCell, IntCell(1)}}

SmallArgLists == SeqsUpTo(SmallArrays, MaxArgs)

ConcatPool == {NullCell, StrCell(<<>>), StrCell(<<97>>), StrCell(<<201, 65>>)}

\* n >= 1 Utf8 arrays of N rows each
ConcatArgLists ==
    UNION {[1..n -> {Array("Utf8", r) : r \in [1..N -> ConcatPool]}] :
             <<n, N>> \in {p \in (1..MaxArgs) \X (0..MaxRows) : p[1] * p[2] <= MaxCells}}

LenCells == {NullCell} \cup {IntCell(n) : n \in (0 - MaxNeg)..MaxLen}

\* single-row calls: every string and fill within the character budget
LpadRows2 == ({NullCell} \cup {StrCell(s) : s \in Strs(MaxChars)}) \X LenCells

LpadRows3 ==
    {r \in ({NullCell} \cup {StrCell(s) : s \in Strs(MaxChars)}) \X LenCells
              \X ({NullCell} \cup {StrCell(s) : s \in Strs(MaxChars)}) :
        Len(r[1].s) + Len(r[3].s) <= MaxChars}

\* rows of the calls with several rows
LpadPool ==
    {NullCell, StrCell(<<97>>), StrCell(<<201>>)}
        \X {NullCell, IntCell(-1), IntCell(1), IntCell(2)}
        \X {NullCell, StrCell(<<>>), StrCell(<<65>>)}

\* the k-th column of a sequence of rows as an array
Column(kind, rs, k) == Array(kind, [i \in 1..Len(rs) |-> rs[i][k]])

\* the two and the three columns of a sequence of rows as argument lists
Args2(T, rs) == <<Column(T, rs, 1), Column("Int64", rs, 2)>>

Args3(T, rs) == <<Column(T, rs, 1), Column("Int64", rs, 2), Column(T, rs, 3)>>

UnaryPool == {NullCell} \cup {StrCell(s) : s \in Strs(1)}

UnaryCells == {NullCell} \cup {StrCell(s) : s \in Strs(MaxStrLen)}

(***************************************************************************)
(* The state machine.  The kernels are pure and share no state, so a       *)
(* behaviour is one call: from the state before the call (op = "none") one *)
(* kernel is invoked on one argument list and the state records the call   *)
(* and what it returned.                                                   *)
(***************************************************************************)
Init ==
    /\ op = "none"
    /\ width = "Utf8"
    /\ args = <<>>
    /\ result = NoResult

\* the state after the call of kernel `name` at offset width T on a
Call(name, T, a, r) ==
    /\ op' = name
    /\ width' = T
    /\ args' = a
    /\ result' = r

Concatenate ==
    /\ op = "none"
    /\ \/ \E a \in ConcatArgLists : Call("concatenate", "Utf8", a, concatenate(a))
       \/ \E a \in SmallArgLists : Call("concatenate", "Utf8", a, concatenate(a))

Lpad ==
    /\ op = "none"
    /\ \E T \in StringKinds :
           \/ \E r \in LpadRows2 : Call("lpad", T, Args2(T, <<r>>), lpad(T, Args2(T, <<r>>)))
           \/ \E r \in LpadRows3 : Call("lpad", T, Args3(T, <<r>>), lpad(T, Args3(T, <<r>>)))
           \/ \E N \in 0..MaxRows : \E rs \in [1..N -> LpadPool] :
                  \/ Call("lpad", T, Args2(T, rs), lpad(T, Args2(T, rs)))
                  \/ Call("lpad", T, Args3(T, rs), lpad(T, Args3(T, rs)))
           \/ \E a \in SmallArgLists : Call("lpad", T, a, lpad(T, a))

Lower ==
    /\ op = "none"
    /\ \E T \in StringKinds :
           \/ \E c \in UnaryCells :
                  Call("lower", T, <<Array(T, <<c>>)>>, lower(T, <<Array(T, <<c>>)>>))
           \/ \E N \in 0..MaxRows : \E rs \in [1..N -> UnaryPool] :
                  Call("lower", T, <<Array(T, rs)>>, lower(T, <<Array(T, rs)>>))
           \/ \E a \in SmallArgLists : Len(a) <= 2 /\ Call("lower", T, a, lower(T, a))

Upper ==
    /\ op = "none"
    /\ \E T \in StringKinds :
           \/ \E c \in UnaryCells :
                  Call("upper", T, <<Array(T, <<c>>)>>, upper(T, <<Array(T, <<c>>)>>))
           \/ \E N \in 0..MaxRows : \E rs \in [1..N -> UnaryPool] :
                  Call("upper", T, <<Array(T, rs)>>, upper(T, <<Array(T, rs)>>))
           \/ \E a \in SmallArgLists : Len(a) <= 2 /\ Call("upper", T, a, upper(T, a))

Trim ==
    /\ op = "none"
    /\ \E T \in StringKinds :
           \/ \E c \in UnaryCells :
                  Call("trim", T, <<Array(T, <<c>>)>>, trim(T, <<Array(T, <<c>>)>>))
           \/ \E N \in 0..MaxRows : \E rs \in [1..N -> UnaryPool] :
                  Call("trim", T, <<Array(T, rs)>>, trim(T, <<Array(T, rs)>>))
           \/ \E a \in SmallArgLists : Len(a) <= 2 /\ Call("trim", T, a, trim(T, a))

Ltrim ==
    /\ op = "none"
    /\ \E T \in StringKinds :
           \/ \E c \in UnaryCells :
                  Call("ltrim", T, <<Array(T, <<c>>)>>, ltrim(T, <<Array(T, <<c>>)>>))
           \/ \E N \in 0..MaxRows : \E rs \in [1..N -> UnaryPool] :
                  Call("ltrim", T, <<Array(T, rs)>>, ltrim(T, <<Array(T, rs)>>))
           \/ \E a \in SmallArgLists : Len(a) <= 2 /\ Call("ltrim", T, a, ltrim(T, a))

Rtrim ==
    /\ op = "none"
    /\ \E T \in StringKinds :
           \/ \E c \in UnaryCells :
                  Call("rtrim", T, <<Array(T, <<c>>)>>, rtrim(T, <<Array(T, <<c>>)>>))
           \/ \E N \in 0..MaxRows : \E rs \in [1..N -> UnaryPool] :
                  Call("rtrim", T, <<Array(T, rs)>>, rtrim(T, <<Array(T, rs)>>))
           \/ \E a \in SmallArgLists : Len(a) <= 2 /\ Call("rtrim", T, a, rtrim(T, a))

Next == Concatenate \/ Lpad \/ Lower \/ Upper \/ Trim \/ Ltrim \/ Rtrim

Spec == Init /\ [][Next]_vars

(***************************************************************************)
(* Properties.  Len(s) is the number of CHARACTERS of s (clen).            *)
(***************************************************************************)
\* the call is concatenate on n >= 1 Utf8 arrays
ConcatCall == op = "concatenate" /\ Len(args) >= 1 /\ \A k \in 1..Len(args) : args[k].kind = "Utf8"

RECURSIVE Offset(_, _)
\* the number of characters of row i in the arguments before argument k
Offset(i, k) == IF k <= 1 THEN 0 ELSE Offset(i, k - 1) + Len(args[k - 1].rows[i].s)

\* C1: concatenate on n >= 1 string arrays of N rows returns N rows; row i is
\* null exactly when some argument is null at i, and otherwise it is the
\* values of the arguments at i one after the other in argument order (each
\* argument's value sits at the offset of the values before it); with one
\* argument the output equals the argument row for row.
C1_Concatenate ==
    ConcatCall =>
        /\ result.tag = "Ok"
        /\ Len(result.rows) = Len(args[1].rows)
        /\ Len(args) = 1 => result.rows = args[1].rows
        /\ \A i \in 1..Len(args[1].rows) :
              LET anyNull == \E k \in 1..Len(args) : args[k].rows[i].null IN
              /\ result.rows[i].null <=> anyNull
              /\ ~anyNull =>
                    /\ Len(result.rows[i].s) = Offset(i, Len(args) + 1)
                    /\ \A k \in 1..Len(args) :
                          SubSeq(result.rows[i].s, Offset(i, k) + 1, Offset(i, k + 1))
                              = args[k].rows[i].s

\* three arguments, two rows: row 1 nulled by the second argument alone,
\* row 2 the three values in order, one of them multi-byte
C1_Witness ==
    /\ op = "concatenate"
    /\ result.tag = "Ok"
    /\ Len(args) = 3
    /\ Len(result.rows) = 2
    /\ ~args[1].rows[1].null /\ args[2].rows[1].null /\ ~args[3].rows[1].null
    /\ result.rows[1].null
    /\ args[1].rows[2].s = <<97>> /\ args[2].rows[2].s = <<201, 65>>
    /\ result.rows[2] = StrCell(<<97, 201, 65, 97>>)

\* the call is lpad with n arguments of the expected kinds
LpadCall(n) ==
    /\ op = "lpad"
    /\ Len(args) = n
    /\ args[1].kind = width
    /\ args[2].kind = "Int64"
    /\ n = 3 => args[3].kind = width

\* row i of the call has a non-null string, length and (3 arguments) fill
RowPresent(i) == \A k \in 1..Len(args) : ~args[k].rows[i].null

RowS(i) == args[1].rows[i].s

RowL(i) == args[2].rows[i].n

RowF(i) == args[3].rows[i].s

\* C2: in the array an lpad call returns, row i is null exactly when the
\* string row, the length row or (3 arguments) the fill row is null,
\* whatever the values of the rows are.
C2_LpadNulls ==
    ((LpadCall(2) \/ LpadCall(3)) /\ result.tag = "Ok") =>
        /\ Len(result.rows) = Len(args[1].rows)
        /\ \A i \in 1..Len(args[1].rows) : result.rows[i].null <=> ~RowPresent(i)

\* three arguments, two rows: row 1 is null because of its fill alone, row 2
\* has a negative length and an empty fill and is not null
C2_Witness ==
    /\ LpadCall(3)
    /\ result.tag = "Ok"
    /\ Len(result.rows) = 2
    /\ ~args[1].rows[1].null /\ ~args[2].rows[1].null /\ args[3].rows[1].null
    /\ result.rows[1].null
    /\ RowPresent(2) /\ RowL(2) < 0 /\ RowF(2) = <<>>
    /\ ~result.rows[2].null

\* C3: in both lpad forms a row with a non-null string s and a length L with
\* 0 < L < clen(s) is the first L characters of s, also when s holds
\* multi-byte characters.
C3_LpadTruncatesChars ==
    ((LpadCall(2) \/ LpadCall(3))
        /\ \A i \in 1..Len(args[1].rows) :
              RowPresent(i) /\ 0 < RowL(i) /\ RowL(i) < Len(RowS(i))) =>
        /\ result.tag = "Ok"
        /\ \A i \in 1..Len(args[1].rows) :
              result.rows[i] = StrCell(SubSeq(RowS(i), 1, RowL(i)))

\* the padding of n characters cycling through the characters of f
CyclePad(f, n) == [k \in 1..n |-> f[((k - 1) % Len(f)) + 1]]

\* C4: in 3-argument lpad a row with a non-null string s, a non-empty fill f
\* and L >= clen(s) is p ++ s where p has L - clen(s) characters, the k-th
\* being f[k mod clen(f)]; the row has exactly L characters.
C4_Lpad3Pads ==
    (LpadCall(3)
        /\ \A i \in 1..Len(args[1].rows) :
              RowPresent(i) /\ RowF(i) # <<>> /\ RowL(i) >= Len(RowS(i))) =>
        /\ result.tag = "Ok"
        /\ \A i \in 1..Len(args[1].rows) :
              /\ result.rows[i] = StrCell(CyclePad(RowF(i), RowL(i) - Len(RowS(i))) \o RowS(i))
              /\ Len(result.rows[i].s) = RowL(i)

\* C5: in 2-argument lpad a row with a non-null string s and L >= clen(s) is
\* s preceded by L - clen(s) spaces; the row has exactly L characters.
C5_Lpad2Pads ==
    (LpadCall(2)
        /\ \A i \in 1..Len(args[1].rows) : RowPresent(i) /\ RowL(i) >= Len(RowS(i))) =>
        /\ result.tag = "Ok"
        /\ \A i \in 1..Len(args[1].rows) :
              /\ result.rows[i] = StrCell([k \in 1..(RowL(i) - Len(RowS(i))) |-> 32] \o RowS(i))
              /\ Len(result.rows[i].s) = RowL(i)

\* C6: in 3-argument lpad a row with a non-null string s, an empty non-null
\* fill and L >= clen(s), L > 0 is s unchanged; with L = 0 the row is the
\* empty string for every non-null s and fill.
C6_Lpad3EmptyFill ==
    (LpadCall(3)
        /\ \A i \in 1..Len(args[1].rows) :
              /\ RowPresent(i)
              /\ \/ RowL(i) = 0
                 \/ RowF(i) = <<>> /\ RowL(i) > 0 /\ RowL(i) >= Len(RowS(i))) =>
        /\ result.tag = "Ok"
        /\ \A i \in 1..Len(args[1].rows) :
              result.rows[i] = StrCell(IF RowL(i) = 0 THEN <<>> ELSE RowS(i))

\* C7: concatenate with no argument, and lpad with an argument count other
\* than 2 or 3, return the error stating the required count and no array,
\* whatever the kinds and contents of the arguments.
C7_ArityErrors ==
    /\ (op = "concatenate" /\ Len(args) = 0) =>
          result = Err("Concatenate was called with 0 arguments. It requires at least one.", 0)
    /\ (op = "lpad" /\ Len(args) \notin {2, 3}) =>
          result = Err("lpad was called with {} arguments. It requires 2 or 3.", Len(args))

\* lpad on four arguments, the first an Int64 array and the second a string
\* array, is rejected on its count
C7_Witness ==
    /\ op = "lpad"
    /\ Len(args) = 4
    /\ args[1].kind = "Int64"
    /\ args[2].kind \in StringKinds
    /\ result.tag = "Err"
    /\ result.fmt = 4

\* some argument of the call is not of the kind the kernel views it as
KindMismatch ==
    \/ op = "concatenate" /\ Len(args) >= 1 /\ \E k \in 1..Len(args) : args[k].kind # "Utf8"
    \/ /\ op = "lpad"
       /\ Len(args) \in {2, 3}
       /\ \/ args[1].kind # width
          \/ args[2].kind # "Int64"
          \/ Len(args) = 3 /\ args[3].kind # width
    \/ /\ op \in {"lower", "upper", "trim", "ltrim", "rtrim"}
       /\ Len(args) = 1
       /\ args[1].kind # width

\* C8: a call with an argument that cannot be viewed as the expected array
\* kind returns an error value; it neither aborts nor returns an array.
C8_TypeMismatchIsErr == KindMismatch => result.tag = "Err"

\* r is v without its leading (lead) and trailing (trail) whitespace
IsTrimOf(v, r, lead, trail) ==
    \E p \in 0..Len(v) : \E q \in 0..(Len(v) - p) :
        /\ r = SubSeq(v, p + 1, Len(v) - q)
        /\ \A j \in 1..p : is_whitespace(v[j])
        /\ \A j \in (Len(v) - q + 1)..Len(v) : is_whitespace(v[j])
        /\ IF lead THEN r = <<>> \/ ~is_whitespace(r[1]) ELSE p = 0
        /\ IF trail THEN r = <<>> \/ ~is_whitespace(r[Len(r)]) ELSE q = 0

\* r is the image of v under the mapping of the unary kernel o
Maps(o, v, r) ==
    CASE o = "lower" ->
            /\ Len(r) = Len(v)
            /\ \A j \in 1..Len(v) :
                  /\ v[j] \in 65..90 => r[j] = v[j] + 32
                  /\ v[j] \notin 65..90 => r[j] = v[j]
      [] o = "upper" ->
            /\ Len(r) = Len(v)
            /\ \A j \in 1..Len(v) :
                  /\ v[j] \in 97..122 => r[j] = v[j] - 32
                  /\ v[j] \notin 97..122 => r[j] = v[j]
      [] o = "trim" -> IsTrimOf(v, r, TRUE, TRUE)
      [] o = "ltrim" -> IsTrimOf(v, r, TRUE, FALSE)
      [] o = "rtrim" -> IsTrimOf(v, r, FALSE, TRUE)

\* C9: a unary kernel returns as many rows as its input, in order; a row is
\* null exactly when the input row is, and otherwise it is the kernel's
\* mapping of the input row; lower and upper change ASCII letters only.
C9_UnaryKernels ==
    (op \in {"lower", "upper", "trim", "ltrim", "rtrim"} /\ Len(args) >= 1 /\ args[1].kind = width) =>
        /\ result.tag = "Ok"
        /\ Len(result.rows) = Len(args[1].rows)
        /\ \A i \in 1..Len(args[1].rows) :
              /\ result.rows[i].null <=> args[1].rows[i].null
              /\ ~args[1].rows[i].null => Maps(op, args[1].rows[i].s, result.rows[i].s)
              /\ (op \in {"lower", "upper"} /\ ~args[1].rows[i].null) =>
                    \A j \in 1..Len(args[1].rows[i].s) :
                        args[1].rows[i].s[j] >= 128 =>
                            result.rows[i].s[j] = args[1].rows[i].s[j]

\* lower on the rows "É", "A": the non-ASCII letter kept, the ASCII letter
\* lowered, the rows in order
C9_Witness ==
    /\ op = "lower"
    /\ args[1].rows = <<StrCell(<<201>>), StrCell(<<65>>)>>
    /\ result.tag = "Ok"
    /\ result.rows = <<StrCell(<<201>>), StrCell(<<97>>)>>

\* C10: a row of lpad with a negative length (string and fill not null) is
\* produced like any other: the call completes with an output row for it.
C10_LpadNegativeLength ==
    ((LpadCall(2) \/ LpadCall(3))
        /\ Len(args[1].rows) >= 1
        /\ \A i \in 1..Len(args[1].rows) : RowPresent(i) /\ RowL(i) < 0) =>
        /\ result.tag = "Ok"
        /\ \A i \in 1..Len(args[1].rows) : ~result.rows[i].null

====
